---- MODULE Spec2Model ----
(***************************************************************************)
(* Model of openrlhf/datasets/reward_dataset.py: RewardDataset and         *)
(* QwenRewardDataset (dataset construction, __getitem__, collate_fn and    *)
(* packing_collate_fn).                                                    *)
(*                                                                         *)
(* Token ids are modelled as strings (the code only compares them), masks  *)
(* and segment ids as integers.  Sequences are 1-based here; the code's    *)
(* 0-based positions are kept in the scan (At(s, i) is s[i] of the code).  *)
(***************************************************************************)
EXTENDS Integers, Sequences, FiniteSets, TLC

VARIABLES
    variant,            \* "Reward" (RewardDataset) or "Qwen" (QwenRewardDataset)
    is_dpo,             \* self.is_dpo
    max_length,         \* self.max_length
    multiple_of,        \* self.multiple_of
    response_template,  \* self.response_template, tokenized; NoTemplate when None
    input_template,     \* self.input_template, tokenized prefix; NoTemplate when None
    pad_token_id,       \* self.tokenizer.pad_token_id
    dataset,            \* the raw records handed to __init__
    processed,          \* dataset.map(self.process_data): one slot per record
    finished,           \* the records in the order the workers finished them
    prompts,            \* self.prompts
    chosens,            \* self.chosens
    rejects,            \* self.rejects
    extras,             \* self.extras
    item_list,          \* the items handed to a batch assembler
    ret,                \* what the last call returned (or the exception it raised)
    pc                  \* which call happened last

vars == << variant, is_dpo, max_length, multiple_of, response_template, input_template,
           pad_token_id,
           dataset, processed, finished, prompts, chosens, rejects, extras, item_list,
           ret, pc >>

-----------------------------------------------------------------------------
(* Bounds of the model *)

MaxPromptLen == 3     \* tokens of a record's prompt
MaxTplLen == 2        \* tokens of a response template
MaxLength == 4        \* largest max_length

(* Tokenizer attributes *)
eos_token_id == "EOS"
NoTemplate == << "None" >>
NoValue == [st |-> "none", v |-> 0]         \* Python's None
Unbound == [st |-> "unbound", v |-> 0]      \* a local that was never assigned
Bound(n) == [st |-> "int", v |-> n]

TextVocab == {"EOS", "A", "X"}
AnswerVocab == TextVocab \cup {"NL"}
TplVocab == {"EOS", "A"}

Min(a, b) == IF a <= b THEN a ELSE b
Max(a, b) == IF a >= b THEN a ELSE b
SeqsUpTo(S, lo, hi) == UNION { [1..n -> S] : n \in lo..hi }
At(s, i) == s[i + 1]
Ones(n) == [i \in 1..n |-> 1]
Zeros(n) == [i \in 1..n |-> 0]

-----------------------------------------------------------------------------
(* Sequence Builder: lines 150-178 and 408-461 *)

RECURSIVE RStripNewlines(_)
RStripNewlines(s) ==
    IF Len(s) > 0 /\ s[Len(s)] = "NL" THEN RStripNewlines(SubSeq(s, 1, Len(s) - 1)) ELSE s

\* (prompt + answer).rstrip("\n"), then " " + eos_token unless it already ends with it
BuildText(prompt, answer) ==
    LET t == RStripNewlines(prompt \o answer)
    IN  IF Len(t) > 0 /\ t[Len(t)] = eos_token_id THEN t ELSE Append(t, eos_token_id)

\* the Qwen variant hands the rendered conversation to the processor as it is
RenderConversation(prompt, answer) == answer

\* tokenizer(text, max_length=..., truncation=True, padding=False)
Tokenizer(text, maxlen) ==
    LET n == Min(Len(text), maxlen)
    IN  [input_ids |-> SubSeq(text, 1, n), attention_mask |-> Ones(n)]

\* x[0][-1] = value
SetLast(s, value) == [s EXCEPT ![Len(s)] = value]

ForceEosNever(tok) == tok

\* "to avoid EOS_token truncation"
ForceEos(tok) ==
    [input_ids |-> SetLast(tok.input_ids, eos_token_id),
     attention_mask |-> SetLast(tok.attention_mask, 1)]

\* the text handed to the tokenizer (lines 150-152) or the processor (lines 408-410)
SideText(v, prompt, answer) ==
    IF v = "Reward" THEN BuildText(prompt, answer) ELSE RenderConversation(prompt, answer)

TokenizedSide(v, prompt, answer, maxlen) ==
    ForceEos(Tokenizer(SideText(v, prompt, answer), maxlen))

-----------------------------------------------------------------------------
(* Loss-Mask Locator: lines 180-218 and 463-505 *)

FirstTokenMatch(ids, tpl, id) == At(ids, id) = tpl[1]

\* line 189: the slice ids[id : id+len(tpl)] has the template's length and equals it
FullMatch(ids, tpl, id) ==
    /\ Min(Len(ids), id + Len(tpl)) - id = Len(tpl)
    /\ \A k \in 0..(Len(tpl) - 1) : At(ids, id + k) = tpl[k + 1]

\* lines 195-198: the first j in range(start_id, len) holding eos, if any
EosFrom(ids, start_id) == { j \in start_id..(Len(ids) - 1) : At(ids, j) = eos_token_id }
FirstOf(S) == CHOOSE j \in S : \A k \in S : j <= k

SliceAssignExclusive(mask, start_id, end_id) ==
    [i \in 1..Len(mask) |-> IF start_id <= i - 1 /\ i - 1 < end_id THEN 1 ELSE mask[i]]

\* loss_mask[i][start_id:end_id+1] = 1
SliceAssign(mask, start_id, end_id) ==
    [i \in 1..Len(mask) |-> IF start_id <= i - 1 /\ i - 1 < end_id + 1 THEN 1 ELSE mask[i]]

\* One pass of the inner loop body for the candidate position id.
\* st = [mask, start_id, end_id, err]; resetEnd: the loop has "end_id = None"
\* (lines 207, 492); fallback: it has "if end_id is None: end_id = len - 1"
\* (lines 482-483, 497-498).
ScanStep(ids, tpl, resetEnd, fallback, st, id) ==
    IF ~FullMatch(ids, tpl, id) THEN st
    ELSE
      LET start_id == id + Len(tpl)
          e0 == IF resetEnd THEN NoValue ELSE st.end_id
          found == EosFrom(ids, start_id)
          e1 == IF found # {} THEN Bound(FirstOf(found)) ELSE e0
          e2 == IF fallback /\ e1.st = "none" THEN Bound(Len(ids) - 1) ELSE e1
      IN  IF e2.st = "unbound"
            THEN [st EXCEPT !.start_id = Bound(start_id), !.err = "UnboundLocalError"]
          ELSE IF e2.st = "none"
            THEN [st EXCEPT !.start_id = Bound(start_id), !.end_id = e2, !.err = "TypeError"]
          ELSE [mask |-> SliceAssign(st.mask, start_id, e2.v),
                start_id |-> Bound(start_id), end_id |-> e2, err |-> "ok"]

\* for id in torch.where(ids == response_tokens[0])[0]: ... (ascending positions)
RECURSIVE ScanFrom(_, _, _, _, _, _)
ScanFrom(ids, tpl, resetEnd, fallback, st, id) ==
    IF id >= Len(ids) \/ st.err # "ok" THEN st
    ELSE IF At(ids, id) = tpl[1]
      THEN ScanFrom(ids, tpl, resetEnd, fallback,
                    ScanStep(ids, tpl, resetEnd, fallback, st, id), id + 1)
      ELSE ScanFrom(ids, tpl, resetEnd, fallback, st, id + 1)

\* the chosen loop (lines 184-199, 467-484): end_id is not reset
ChosenScan(v, ids, tpl, locals) ==
    ScanFrom(ids, tpl, FALSE, v = "Qwen",
             [mask |-> Zeros(Len(ids)), start_id |-> locals.start_id,
              end_id |-> locals.end_id, err |-> "ok"], 0)

\* the reject loop (lines 201-212, 486-499): end_id = None before each search
RejectScan(v, ids, tpl, locals) ==
    ScanFrom(ids, tpl, TRUE, v = "Qwen",
             [mask |-> Zeros(Len(ids)), start_id |-> locals.start_id,
              end_id |-> locals.end_id, err |-> "ok"], 0)

NoTemplateLossMaskZeros(tok) == Zeros(Len(tok.input_ids))

\* lines 216-218, 503-505: loss_mask = attention_mask
NoTemplateLossMask(tok) == tok.attention_mask

ItemArity(v) == IF v = "Reward" THEN 7 ELSE 11

\* __getitem__ as a function of the stored record
GetItemResult(v, prompt, chosen, reject, extra, tpl, maxlen) ==
    LET c == TokenizedSide(v, prompt, chosen, maxlen)
        r == TokenizedSide(v, prompt, reject, maxlen)
        cs == ChosenScan(v, c.input_ids, tpl, [start_id |-> Unbound, end_id |-> Unbound])
        rs == RejectScan(v, r.input_ids, tpl, [start_id |-> cs.start_id, end_id |-> cs.end_id])
        item(cl, rl) ==
            [err |-> "ok", arity |-> ItemArity(v),
             chosen_ids |-> c.input_ids, chosen_mask |-> c.attention_mask,
             reject_ids |-> r.input_ids, reject_mask |-> r.attention_mask,
             chosen_loss_mask |-> cl, reject_loss_mask |-> rl, extra |-> extra]
    IN  IF tpl = NoTemplate THEN item(NoTemplateLossMask(c), NoTemplateLossMask(r))
        ELSE IF cs.err # "ok" THEN [err |-> cs.err, side |-> "chosen"]
        ELSE IF rs.err # "ok" THEN [err |-> rs.err, side |-> "reject"]
        ELSE item(cs.mask, rs.mask)

\* RewardDataset.__getitem__ / QwenRewardDataset.__getitem__
GetItem(idx) ==
    /\ pc = "ready"
    /\ idx \in 1..Len(chosens)
    /\ ret' = GetItemResult(variant, prompts[idx], chosens[idx], rejects[idx], extras[idx],
                            response_template, max_length)
    /\ pc' = "item"
    /\ UNCHANGED << variant, is_dpo, max_length, multiple_of, response_template,
                    input_template, pad_token_id, dataset, processed, finished, prompts,
                    chosens, rejects, extras, item_list >>

-----------------------------------------------------------------------------
(* The specification of __getitem__: a constructed dataset of one record *)

Templates == SeqsUpTo(TplVocab, 1, MaxTplLen)
ExamplePrompt == << "Q", ":", "2", "+", "2", "?" >>
ExampleChosen == << "A", ":", "4" >>
ExampleReject == << "A", ":", "5" >>
ExampleTemplate == << "A", ":" >>
\* a text in which the template recurs: once before an eos, once at the very end
RepeatPrompt == << "A", "EOS", "EOS" >>
RepeatTemplate == << "A", "EOS" >>

InitItem ==
    /\ variant \in {"Reward", "Qwen"}
    /\ is_dpo = FALSE
    /\ multiple_of = 1
    /\ input_template = NoTemplate
    /\ pad_token_id = "PAD"
    /\ dataset = << >>
    /\ processed = << >>
    /\ finished = << >>
    /\ \/ /\ max_length \in 1..MaxLength
          /\ response_template \in Templates \cup {NoTemplate}
          /\ \E p \in SeqsUpTo(TextVocab, 0, MaxPromptLen), c \in AnswerVocab, r \in AnswerVocab :
                /\ prompts = << p >>
                /\ chosens = << IF variant = "Reward" THEN << c >> ELSE Append(p, c) >>
                /\ rejects = << IF variant = "Reward" THEN << r >> ELSE Append(p, r) >>
       \/ /\ max_length \in {9, 10}
          /\ response_template = ExampleTemplate
          /\ prompts = << ExamplePrompt >>
          /\ chosens = << IF variant = "Reward" THEN ExampleChosen
                          ELSE ExamplePrompt \o ExampleChosen \o << "EOS" >> >>
          /\ rejects = << IF variant = "Reward" THEN ExampleReject
                          ELSE ExamplePrompt \o ExampleReject \o << "EOS" >> >>
       \/ /\ max_length = 5
          /\ response_template = RepeatTemplate
          /\ prompts = << RepeatPrompt >>
          /\ \E c \in {<< "A" >>, << "X" >>}, r \in {<< "A" >>, << "X" >>} :
                /\ chosens = << IF variant = "Reward" THEN c
                                ELSE RepeatPrompt \o c \o << "EOS" >> >>
                /\ rejects = << IF variant = "Reward" THEN r
                                ELSE RepeatPrompt \o r \o << "EOS" >> >>
    /\ extras = << 0 >>
    /\ item_list = << >>
    /\ ret = [err |-> "none"]
    /\ pc = "ready"

NextItem == \E idx \in 1..Len(chosens) : GetItem(idx)

SpecItem == InitItem /\ [][NextItem]_vars

-----------------------------------------------------------------------------
(* Padded Batch Assembler: collate_fn, lines 232-259 and 523-572 *)

Fields == { "chosen_ids", "chosen_mask", "reject_ids", "reject_mask",
            "chosen_loss_mask", "reject_loss_mask" }

Repeat(tok, n) == [i \in 1..n |-> tok]

RECURSIVE MaxLen(_)
MaxLen(seqs) == IF seqs = << >> THEN 0 ELSE Max(Len(Head(seqs)), MaxLen(Tail(seqs)))

\* utils.zero_pad_sequences: every sequence padded to the longest one on the
\* given side, then stacked
zero_pad_sequences(sequences, side, value) ==
    [k \in 1..Len(sequences) |->
        LET pad == Repeat(value, MaxLen(sequences) - Len(sequences[k]))
        IN  IF side = "left" THEN pad \o sequences[k] ELSE sequences[k] \o pad]

PaddingSideSwapped(dpo) == IF dpo THEN "left" ELSE "right"

\* lines 249-252 (555-558)
PaddingSide(dpo) == IF dpo THEN "right" ELSE "left"

Column(items, f) == [k \in 1..Len(items) |-> items[k][f]]

\* line 259 returns rejected_loss_mask, the loop variable of line 240: the last
\* item's own reject loss mask; line 572 returns the padded reject_loss_masks
RejectLossMasks(v, items, side) ==
    IF v = "Reward" THEN << items[Len(items)].reject_loss_mask >>
    ELSE zero_pad_sequences(Column(items, "reject_loss_mask"), side, 0)

\* the item whose sequence row r of the returned field f holds
RowItem(v, f, r, n) == IF v = "Reward" /\ f = "reject_loss_mask" THEN n ELSE r

\* collate_fn as a function of the item list.  The unpacking of line 240 (535)
\* needs 7 (11) values per item; zero_pad_sequences takes max() of the lengths,
\* which raises on an empty list.  The Qwen variant also concatenates the
\* processor's pixel_values and image_grid_thw, opaque tensors left out here.
CollateResult(v, items, dpo, pad) ==
    IF \E k \in 1..Len(items) : items[k].arity # ItemArity(v) THEN [err |-> "ValueError"]
    ELSE IF items = << >> THEN [err |-> "ValueError"]
    ELSE LET side == PaddingSide(dpo)
         IN  [err |-> "ok",
              chosen_ids |-> zero_pad_sequences(Column(items, "chosen_ids"), side, pad),
              chosen_mask |-> zero_pad_sequences(Column(items, "chosen_mask"), side, 0),
              reject_ids |-> zero_pad_sequences(Column(items, "reject_ids"), side, pad),
              reject_mask |-> zero_pad_sequences(Column(items, "reject_mask"), side, 0),
              chosen_loss_mask |->
                  zero_pad_sequences(Column(items, "chosen_loss_mask"), side, 0),
              reject_loss_mask |-> RejectLossMasks(v, items, side),
              extras |-> Column(items, "extra")]

CollateFn ==
    /\ pc = "items"
    /\ ret' = CollateResult(variant, item_list, is_dpo, pad_token_id)
    /\ pc' = "batch"
    /\ UNCHANGED << variant, is_dpo, max_length, multiple_of, response_template,
                    input_template, pad_token_id, dataset, processed, finished, prompts,
                    chosens, rejects, extras, item_list >>

(* The specification of collate_fn: the items __getitem__ returns for a small
   stored dataset *)

MaxItems == 2         \* items of a padded batch
MaxBodyLen == 1       \* tokens of an answer before its eos

AnswerPool == { Repeat(b, k) : b \in {"A", "PAD"}, k \in 0..MaxBodyLen }

InitCollate ==
    /\ variant \in {"Reward", "Qwen"}
    /\ is_dpo \in BOOLEAN
    /\ max_length = MaxLength
    /\ multiple_of = 1
    /\ response_template \in {NoTemplate, << "A" >>}
    /\ input_template = NoTemplate
    /\ pad_token_id \in {"PAD", "EOS"}
    /\ dataset = << >>
    /\ processed = << >>
    /\ finished = << >>
    /\ \E n \in 0..MaxItems :
         \E cs \in [1..n -> AnswerPool], rs \in [1..n -> AnswerPool] :
            /\ prompts = [k \in 1..n |-> << >>]
            /\ chosens = [k \in 1..n |-> IF variant = "Reward" THEN cs[k]
                                         ELSE Append(cs[k], "EOS")]
            /\ rejects = [k \in 1..n |-> IF variant = "Reward" THEN rs[k]
                                         ELSE Append(rs[k], "EOS")]
            /\ extras = [k \in 1..n |-> k]
    /\ item_list = [k \in 1..Len(chosens) |->
                       GetItemResult(variant, prompts[k], chosens[k], rejects[k],
                                     extras[k], response_template, max_length)]
    /\ ret = [err |-> "none"]
    /\ pc = "items"

NextCollate == CollateFn

SpecCollate == InitCollate /\ [][NextCollate]_vars

-----------------------------------------------------------------------------
(* Packed Batch Assembler: packing_collate_fn, lines 261-291 and 578-608 *)

RECURSIVE Concat(_)
\* torch.cat(list, dim=0)
Concat(seqs) == IF seqs = << >> THEN << >> ELSE Head(seqs) \o Concat(Tail(seqs))

PaddingLenAlways(numel, m) == m - (numel % m)

\* lines 286-287: the padding that brings numel to the next multiple
PaddingLen(numel, m) == IF m > 1 /\ numel % m # 0 THEN m - (numel % m) ELSE 0

RejectedIndexSame(index, n) == index

\* line 278: index + len(item_list)
RejectedIndex(index, n) == index + n

PackedSeqLensRejectedFirst(chosen_seq_lens, rejected_seq_lens) ==
    rejected_seq_lens \o chosen_seq_lens

\* line 284: packed_seq_lens = chosen_seq_lens + rejected_seq_lens
PackedSeqLens(chosen_seq_lens, rejected_seq_lens) == chosen_seq_lens \o rejected_seq_lens

\* packing_collate_fn as a function of the item list.  The unpacking of line 271
\* (588) needs 5 values per item; torch.cat raises on an empty list.
PackResult(items, m, pad) ==
    IF \E k \in 1..Len(items) : items[k].arity # 5 THEN [err |-> "ValueError"]
    ELSE IF items = << >> THEN [err |-> "RuntimeError"]
    ELSE LET n == Len(items)
             chosen_ids == Column(items, "chosen_ids")
             rejected_ids == Column(items, "reject_ids")
             chosen_att_masks == [k \in 1..n |-> Repeat(k, Len(chosen_ids[k]))]
             rejected_att_masks ==
                 [k \in 1..n |-> Repeat(RejectedIndex(k, n), Len(rejected_ids[k]))]
             chosen_seq_lens == [k \in 1..n |-> Len(chosen_ids[k])]
             rejected_seq_lens == [k \in 1..n |-> Len(rejected_ids[k])]
             packed_input_ids == Concat(chosen_ids \o rejected_ids)
             packed_attention_masks == Concat(chosen_att_masks \o rejected_att_masks)
             padding_len == PaddingLen(Len(packed_input_ids), m)
         IN  [err |-> "ok",
              packed_input_ids |-> packed_input_ids \o Repeat(pad, padding_len),
              packed_attention_masks |-> packed_attention_masks \o Repeat(0, padding_len),
              packed_seq_lens |-> PackedSeqLens(chosen_seq_lens, rejected_seq_lens),
              extras |-> Column(items, "extra")]

PackingCollateFn ==
    /\ pc = "items"
    /\ ret' = PackResult(item_list, multiple_of, pad_token_id)
    /\ pc' = "packed"
    /\ UNCHANGED << variant, is_dpo, max_length, multiple_of, response_template,
                    input_template, pad_token_id, dataset, processed, finished, prompts,
                    chosens, rejects, extras, item_list >>

(* The specification of packing_collate_fn: lists of the 5-tuples it unpacks.
   Lines 578-608 repeat lines 261-291 word for word, so one variant is run. *)

MaxPackItems == 2     \* items of a packed batch
MaxPackLen == 5       \* tokens of one sequence of a packed batch
MaxMultiple == 8      \* largest multiple_of

\* a sequence of len tokens that names its origin and ends with eos
PackSeq(name, len) == Append(Repeat(name, len - 1), eos_token_id)

PackItem(k, clen, rlen) ==
    [arity |-> 5,
     chosen_ids |-> PackSeq("c" \o ToString(k), clen), chosen_mask |-> Ones(clen),
     reject_ids |-> PackSeq("r" \o ToString(k), rlen), reject_mask |-> Ones(rlen),
     extra |-> k]

InitPack ==
    /\ variant = "Reward"
    /\ is_dpo = FALSE
    /\ max_length = MaxPackLen
    /\ multiple_of \in 1..MaxMultiple
    /\ response_template = NoTemplate
    /\ input_template = NoTemplate
    /\ pad_token_id \in {"PAD", "EOS"}
    /\ dataset = << >>
    /\ processed = << >>
    /\ finished = << >>
    /\ prompts = << >> /\ chosens = << >> /\ rejects = << >> /\ extras = << >>
    /\ \E n \in 0..MaxPackItems :
         \E cl \in [1..n -> 1..MaxPackLen], rl \in [1..n -> 1..MaxPackLen] :
            item_list = [k \in 1..n |-> PackItem(k, cl[k], rl[k])]
    /\ ret = [err |-> "none"]
    /\ pc = "items"

NextPack == PackingCollateFn

SpecPack == InitPack /\ [][NextPack]_vars

-----------------------------------------------------------------------------
(* Example Normalizer and dataset construction: lines 11-47, 96-141, 336-381 *)

\* input_template.format(prompt): the template's text before the prompt
FormatPrompt(tpl, prompt) == IF tpl = NoTemplate THEN prompt ELSE tpl \o prompt

\* preprocess_data without a chat template: lines 35-47
preprocess_data(data, tpl) ==
    [prompt |-> FormatPrompt(tpl, data.prompt),
     chosen |-> data.chosen,
     reject |-> data.rejected,
     margin |-> IF data.margin.st = "int" THEN data.margin.v ELSE 0]

TooLongStrict(prompt_ids_len, maxlen) == prompt_ids_len > maxlen - 2

\* line 133: if prompt_ids_len >= self.max_length - 2
TooLong(prompt_ids_len, maxlen) == prompt_ids_len >= maxlen - 2

Sum(mask) == Cardinality({ i \in 1..Len(mask) : mask[i] = 1 })

\* process_data: lines 110-141 (350-381)
process_data(data, tpl, dpo, maxlen) ==
    LET d == preprocess_data(data, tpl)
        prompt_ids_len == Sum(Tokenizer(d.prompt, maxlen).attention_mask)
    IN  [dropped |-> dpo /\ TooLong(prompt_ids_len, maxlen),
         prompt |-> d.prompt, chosen |-> d.chosen, reject |-> d.reject,
         extra |-> IF dpo THEN prompt_ids_len ELSE d.margin]

Pending == [dropped |-> FALSE, prompt |-> << "pending" >>]

\* one worker of dataset.map(self.process_data, num_proc=...) handles record i
ProcessData(i) ==
    /\ pc = "map"
    /\ i \in 1..Len(dataset)
    /\ processed[i] = Pending
    /\ processed' = [processed EXCEPT ![i] = process_data(dataset[i], input_template,
                                                            is_dpo, max_length)]
    /\ finished' = Append(finished, i)
    /\ UNCHANGED << variant, is_dpo, max_length, multiple_of, response_template,
                    input_template, pad_token_id, dataset, prompts, chosens, rejects,
                    extras, item_list, ret, pc >>

MappedInFinishOrder(slots, order) == [k \in 1..Len(order) |-> slots[order[k]]]

\* lines 97-99: dataset.map returns the rows in the order of the input records,
\* whichever worker finished first
MappedDataset(slots, order) == slots

RECURSIVE Filter(_)
\* processed_dataset.filter(lambda x: x["prompt"] is not None)
Filter(rows) ==
    IF rows = << >> THEN << >>
    ELSE IF rows[1].dropped THEN Filter(Tail(rows))
    ELSE << rows[1] >> \o Filter(Tail(rows))

\* lines 101-108 (341-348): filter, then store the four columns
Store ==
    /\ pc = "map"
    /\ \A i \in 1..Len(dataset) : processed[i] # Pending
    /\ LET kept == Filter(MappedDataset(processed, finished))
       IN  /\ prompts' = [i \in 1..Len(kept) |-> kept[i].prompt]
           /\ chosens' = [i \in 1..Len(kept) |-> kept[i].chosen]
           /\ rejects' = [i \in 1..Len(kept) |-> kept[i].reject]
           /\ extras' = [i \in 1..Len(kept) |-> kept[i].extra]
    /\ pc' = "ready"
    /\ UNCHANGED << variant, is_dpo, max_length, multiple_of, response_template,
                    input_template, pad_token_id, dataset, processed, finished,
                    item_list, ret >>

(* The specification of the construction *)

MaxRecords == 3       \* records of the raw dataset

\* record i of a raw dataset: its answers name it, its prompt has lens[i] tokens
RawRecord(i, len, withMargin) ==
    [prompt |-> Repeat("X", len),
     chosen |-> << "c" \o ToString(i) >>,
     rejected |-> << "r" \o ToString(i) >>,
     margin |-> IF withMargin THEN Bound(i) ELSE NoValue]

InitBuild ==
    /\ variant \in {"Reward", "Qwen"}
    /\ is_dpo \in BOOLEAN
    /\ max_length \in 1..MaxLength
    /\ multiple_of = 1
    /\ response_template = NoTemplate
    /\ input_template \in {NoTemplate, << "X" >>}
    /\ pad_token_id = "PAD"
    /\ \E n \in 0..MaxRecords, withMargin \in BOOLEAN :
         \E lens \in [1..n -> 0..MaxPromptLen] :
            dataset = [i \in 1..n |-> RawRecord(i, lens[i], withMargin)]
    /\ processed = [i \in 1..Len(dataset) |-> Pending]
    /\ finished = << >>
    /\ prompts = << >> /\ chosens = << >> /\ rejects = << >> /\ extras = << >>
    /\ item_list = << >>
    /\ ret = [err |-> "none"]
    /\ pc = "map"

NextBuild ==
    \/ \E i \in 1..Len(dataset) : ProcessData(i)
    \/ Store

SpecBuild == InitBuild /\ [][NextBuild]_vars

\* the positions of the raw dataset whose formatted prompt has fewer than
\* max_length - 2 tokens, in order
PromptTokens(i) == Len(FormatPrompt(input_template, dataset[i].prompt))
Indices == [i \in 1..Len(dataset) |-> i]
ShortEnough == SelectSeq(Indices, LAMBDA i : PromptTokens(i) < max_length - 2)

\* C9: in DPO mode exactly the records whose prompt has fewer than max_length - 2
\* tokens are kept, each with extra equal to that token count; otherwise no record
\* is dropped.
C9_DropsExactlyLongPrompts ==
    pc = "ready" =>
        IF is_dpo
        THEN /\ chosens = [k \in 1..Len(ShortEnough) |-> dataset[ShortEnough[k]].chosen]
             /\ extras = [k \in 1..Len(ShortEnough) |-> PromptTokens(ShortEnough[k])]
             /\ Len(prompts) = Len(ShortEnough)
        ELSE /\ chosens = [k \in 1..Len(dataset) |-> dataset[k].chosen]
             /\ Len(prompts) = Len(dataset)

\* a DPO dataset was built that kept a record and dropped one whose prompt has
\* exactly max_length - 2 tokens
C9_Witness ==
    /\ pc = "ready" /\ is_dpo
    /\ Len(chosens) >= 1
    /\ \E i \in 1..Len(dataset) : PromptTokens(i) = max_length - 2

-----------------------------------------------------------------------------
(* Properties of __getitem__, checked under SpecItem *)

Returned == pc = "item" /\ ret.err = "ok"
HasTemplate == response_template # NoTemplate
Last(s) == s[Len(s)]

\* the two texts of the stored record and their tokenization before the override
ChosenText == SideText(variant, prompts[1], chosens[1])
RejectText == SideText(variant, prompts[1], rejects[1])
ChosenIds == TokenizedSide(variant, prompts[1], chosens[1], max_length).input_ids
RejectIds == TokenizedSide(variant, prompts[1], rejects[1], max_length).input_ids

\* the template occupies the code positions p .. p + Len(tpl) - 1 of ids
TemplateAt(ids, tpl, p) ==
    /\ p + Len(tpl) <= Len(ids)
    /\ SubSeq(ids, p + 1, p + Len(tpl)) = tpl

Matches(ids, tpl) == { p \in 0..(Len(ids) - 1) : TemplateAt(ids, tpl, p) }

\* the first end-of-sequence position at or after s, or the last index if there is none
SpanEnd(ids, s) ==
    LET E == { j \in s..(Len(ids) - 1) : ids[j + 1] = eos_token_id }
    IN  IF E = {} THEN Len(ids) - 1 ELSE CHOOSE j \in E : \A k \in E : j <= k

InSpan(ids, tpl, p, i) == p + Len(tpl) <= i /\ i <= SpanEnd(ids, p + Len(tpl))

\* C1: every returned item ends, on both sides, with the end-of-sequence id in
\* input_ids and a true last attention_mask element, truncated or not.
C1_LastIsEos ==
    Returned =>
        /\ Len(ret.chosen_ids) >= 1 /\ Len(ret.reject_ids) >= 1
        /\ Last(ret.chosen_ids) = eos_token_id /\ Last(ret.chosen_mask) = 1
        /\ Last(ret.reject_ids) = eos_token_id /\ Last(ret.reject_mask) = 1

\* a returned item whose chosen text was cut at max_length on a token that is not eos
C1_Witness ==
    /\ Returned
    /\ Len(ChosenText) > max_length
    /\ ChosenText[max_length] # eos_token_id

\* C2: with a template, every 1 of a returned loss mask lies in the span of some
\* full match (from p + template length to the first eos from there on, or the
\* last index); without a full match the mask is all zero.
C2_OnesInsideSpans ==
    (Returned /\ HasTemplate) =>
        /\ \A i \in 0..(Len(ret.chosen_ids) - 1) :
              ret.chosen_loss_mask[i + 1] = 1 =>
                 \E p \in Matches(ret.chosen_ids, response_template) :
                    InSpan(ret.chosen_ids, response_template, p, i)
        /\ \A i \in 0..(Len(ret.reject_ids) - 1) :
              ret.reject_loss_mask[i + 1] = 1 =>
                 \E p \in Matches(ret.reject_ids, response_template) :
                    InSpan(ret.reject_ids, response_template, p, i)
        /\ Matches(ret.chosen_ids, response_template) = {}
              => ret.chosen_loss_mask = Zeros(Len(ret.chosen_ids))
        /\ Matches(ret.reject_ids, response_template) = {}
              => ret.reject_loss_mask = Zeros(Len(ret.reject_ids))

\* a returned item with a masked position on the chosen side and, on the reject
\* side, a position holding the template's first token where the template does
\* not match in full
C2_Witness ==
    /\ Returned /\ HasTemplate
    /\ \E i \in 1..Len(ret.chosen_ids) : ret.chosen_loss_mask[i] = 1
    /\ \E p \in 0..(Len(ret.reject_ids) - 1) :
          /\ ret.reject_ids[p + 1] = response_template[1]
          /\ ~TemplateAt(ret.reject_ids, response_template, p)

UnionOfSpans(ids, tpl) ==
    [i \in 1..Len(ids) |-> IF \E p \in Matches(ids, tpl) : InSpan(ids, tpl, p, i - 1)
                            THEN 1 ELSE 0]

ExampleTokens == << "Q", ":", "2", "+", "2", "?", "A", ":", "4", "EOS" >>

\* C3: with a template, a returned loss mask is exactly the union of the spans of
\* all full matches; for [Q,:,2,+,2,?,A,:,4,EOS] and template A: it is 1 at the
\* positions of 4 and EOS only.
C3_MaskIsUnionOfSpans ==
    (Returned /\ HasTemplate) =>
        /\ ret.chosen_loss_mask = UnionOfSpans(ret.chosen_ids, response_template)
        /\ ret.reject_loss_mask = UnionOfSpans(ret.reject_ids, response_template)
        /\ (ret.chosen_ids = ExampleTokens /\ response_template = ExampleTemplate)
              => ret.chosen_loss_mask = << 0, 0, 0, 0, 0, 0, 0, 0, 1, 1 >>

\* a returned item whose chosen side holds two full matches with different
\* non-empty spans
C3_Witness ==
    /\ Returned /\ HasTemplate
    /\ \E p, q \in Matches(ret.chosen_ids, response_template) :
          /\ p < q
          /\ q + Len(response_template) < Len(ret.chosen_ids)
          /\ SpanEnd(ret.chosen_ids, p + Len(response_template))
                < SpanEnd(ret.chosen_ids, q + Len(response_template))

\* a full match after which no end-of-sequence id occurs
OpenMatch(ids, tpl) ==
    \E p \in Matches(ids, tpl) :
        \A j \in (p + Len(tpl))..(Len(ids) - 1) : ids[j + 1] # eos_token_id

\* C4: when a full match is followed by no end-of-sequence id (answer_start may
\* equal the length), __getitem__ does not raise and returns a loss mask.
C4_NoEosDoesNotRaise ==
    (pc = "item" /\ HasTemplate /\ (OpenMatch(ChosenIds, response_template)
                                      \/ OpenMatch(RejectIds, response_template)))
        => ret.err = "ok"

\* C5: without a template the returned loss masks equal the returned attention
\* masks, element for element.
C5_LossMaskIsAttentionMask ==
    (pc = "item" /\ ~HasTemplate) =>
        /\ ret.err = "ok"
        /\ ret.chosen_loss_mask = ret.chosen_mask
        /\ ret.reject_loss_mask = ret.reject_mask

\* a returned item without template whose reject text was cut at max_length
C5_Witness ==
    /\ Returned /\ ~HasTemplate
    /\ Len(RejectText) > max_length
    /\ Len(ret.reject_loss_mask) = max_length

-----------------------------------------------------------------------------
(* Properties of collate_fn, checked under SpecCollate *)

Batched == pc = "batch" /\ Len(item_list) >= 1

\* C6: for a non-empty item list each of the six returned fields has one row per
\* item, every row as long as the longest sequence of that field; so the reject
\* loss-mask batch has the shape of the reject ids batch.
C6_EveryFieldOneRowPerItem ==
    Batched =>
        /\ ret.err = "ok"
        /\ \A f \in Fields :
              /\ Len(ret[f]) = Len(item_list)
              /\ \A r \in 1..Len(ret[f]) : Len(ret[f][r]) = MaxLen(Column(item_list, f))

PadValue(f) == IF f \in {"chosen_ids", "reject_ids"} THEN pad_token_id ELSE 0
ConfiguredSide == IF is_dpo THEN "right" ELSE "left"

RECURSIVE TrimLeft(_, _)
TrimLeft(row, value) ==
    IF row # << >> /\ Head(row) = value THEN TrimLeft(Tail(row), value) ELSE row

RECURSIVE TrimRight(_, _)
TrimRight(row, value) ==
    IF row # << >> /\ row[Len(row)] = value
    THEN TrimRight(SubSeq(row, 1, Len(row) - 1), value) ELSE row

Trim(row, side, value) ==
    IF side = "left" THEN TrimLeft(row, value) ELSE TrimRight(row, value)

\* the unpadded sequence that row r of the returned field f was made from
Original(f, r) == item_list[RowItem(variant, f, r, Len(item_list))][f]

\* the element of a sequence on the padding side
Edge(orig, side) == IF side = "left" THEN orig[1] ELSE orig[Len(orig)]

\* C10 as stated: trimming the pad values from the configured side of any row
\* of a returned field gives back the item's sequence, whatever it holds.
C10_TrimRecoversAnyContent ==
    (Batched /\ ret.err = "ok") =>
        \A f \in Fields : \A r \in 1..Len(ret[f]) :
            Trim(ret[f][r], ConfiguredSide, PadValue(f)) = Original(f, r)

\* C10 amended: trimming gives back the item's sequence whenever that sequence
\* does not itself begin (left padding) or end (right padding) with the pad value.
C10_TrimRecoversUnlessEdgeIsPad ==
    (Batched /\ ret.err = "ok") =>
        \A f \in Fields : \A r \in 1..Len(ret[f]) :
            Edge(Original(f, r), ConfiguredSide) # PadValue(f)
                => Trim(ret[f][r], ConfiguredSide, PadValue(f)) = Original(f, r)

\* a batch with a row of ids and a row of a loss mask that were really padded
\* and whose sequences do not have the pad value at the padding side
C10_Witness ==
    /\ Batched /\ ret.err = "ok"
    /\ \A f \in {"chosen_ids", "chosen_loss_mask"} :
          \E r \in 1..Len(ret[f]) :
             /\ Len(ret[f][r]) > Len(Original(f, r))
             /\ Edge(Original(f, r), ConfiguredSide) # PadValue(f)

-----------------------------------------------------------------------------
(* Properties of packing_collate_fn, checked under SpecPack *)

Packed == pc = "packed" /\ ret.err = "ok"

RECURSIVE SumSeq(_)
SumSeq(lens) == IF lens = << >> THEN 0 ELSE Head(lens) + SumSeq(Tail(lens))

\* C7: the packed ids and the segment row have one length L with
\* sum(packed_seq_lens) <= L <= sum + multiple_of - 1; L is a multiple of
\* multiple_of; nothing is added when the sum already is one; lengths [3,5,4,2]
\* with multiple_of 8 give 16.
C7_PackedLength ==
    Packed =>
        LET L == Len(ret.packed_input_ids)
            S == SumSeq(ret.packed_seq_lens)
        IN  /\ Len(ret.packed_attention_masks) = L
            /\ S = SumSeq([k \in 1..Len(item_list) |->
                             Len(item_list[k].chosen_ids) + Len(item_list[k].reject_ids)])
            /\ S <= L /\ L <= S + multiple_of - 1
            /\ L % multiple_of = 0
            /\ (S % multiple_of = 0) => L = S
            /\ (ret.packed_seq_lens = << 3, 5, 4, 2 >> /\ multiple_of = 8) => L = 16

\* the spec's example was packed
C7_Witness ==
    /\ Packed
    /\ ret.packed_seq_lens = << 3, 5, 4, 2 >>
    /\ multiple_of = 8
    /\ Len(ret.packed_input_ids) = 16

\* where the k-th chosen and the k-th rejected sequence start in the packed row
ChosenOffset(k) == SumSeq([j \in 1..(k - 1) |-> Len(item_list[j].chosen_ids)])
RejectOffset(k) ==
    SumSeq([j \in 1..Len(item_list) |-> Len(item_list[j].chosen_ids)])
      + SumSeq([j \in 1..(k - 1) |-> Len(item_list[j].reject_ids)])
RealLength ==
    SumSeq([j \in 1..Len(item_list) |->
              Len(item_list[j].chosen_ids) + Len(item_list[j].reject_ids)])

\* C8: in the segment row the k-th chosen sequence is one run of k, the k-th
\* rejected one run of N + k, chosen runs first, the runs tile the non-pad
\* region, and every padding position holds 0 there and pad_token_id in the ids.
C8_SegmentRuns ==
    Packed =>
        LET N == Len(item_list)
            seg == ret.packed_attention_masks
        IN  /\ \A k \in 1..N :
                  /\ \A i \in 1..Len(item_list[k].chosen_ids) : seg[ChosenOffset(k) + i] = k
                  /\ \A i \in 1..Len(item_list[k].reject_ids) :
                        seg[RejectOffset(k) + i] = N + k
            /\ \A i \in 1..Len(seg) :
                  i > RealLength => seg[i] = 0 /\ ret.packed_input_ids[i] = pad_token_id
            /\ Len(seg) >= RealLength
            /\ Cardinality({ i \in 1..RealLength : i = 1 \/ seg[i] # seg[i - 1] }) = 2 * N

\* two items were packed and alignment padding was added
C8_Witness ==
    /\ Packed
    /\ Len(item_list) = 2
    /\ Len(ret.packed_attention_masks) > RealLength

RECURSIVE SplitBy(_, _)
\* consecutive pieces of ids with the given lengths
SplitBy(ids, lens) ==
    IF lens = << >> THEN << >>
    ELSE << SubSeq(ids, 1, Head(lens)) >>
           \o SplitBy(SubSeq(ids, Head(lens) + 1, Len(ids)), Tail(lens))

\* C11: cutting the non-pad prefix of the packed ids into pieces of the lengths
\* packed_seq_lens gives the chosen sequences in list order, then the rejected
\* ones in list order; packed_seq_lens has 2N entries and extras the items' extra
\* values in list order.
C11_PackRoundTrip ==
    Packed =>
        LET N == Len(item_list)
            real == SubSeq(ret.packed_input_ids, 1, SumSeq(ret.packed_seq_lens))
        IN  /\ Len(ret.packed_seq_lens) = 2 * N
            /\ SplitBy(real, ret.packed_seq_lens)
                 = [k \in 1..(2 * N) |-> IF k <= N THEN item_list[k].chosen_ids
                                         ELSE item_list[k - N].reject_ids]
            /\ ret.extras = [k \in 1..N |-> item_list[k].extra]

\* two items whose four sequences all differ in length were packed with padding
C11_Witness ==
    /\ Packed
    /\ Len(item_list) = 2
    /\ Cardinality({ ret.packed_seq_lens[k] : k \in 1..4 }) = 4
    /\ Len(ret.packed_input_ids) > SumSeq(ret.packed_seq_lens)

-----------------------------------------------------------------------------
(* Properties of the construction with parallel workers, checked under SpecBuild *)

\* the raw record a stored row came from: its chosen answer names it
SourceOf(k) == CHOOSE i \in 1..Len(dataset) : dataset[i].chosen = chosens[k]

\* what process_data makes of raw record i
ExpectedExtra(i) ==
    IF is_dpo THEN Min(PromptTokens(i), max_length)
    ELSE IF dataset[i].margin.st = "int" THEN dataset[i].margin.v ELSE 0

-----------------------------------------------------------------------------
(* The chosen and the reject scan compared, checked under SpecItem *)

FreshLocals == [start_id |-> Unbound, end_id |-> Unbound]

\* what the chosen loop does with the chosen ids, and what the reject loop does
\* with the reject ids when it is reached with the locals the chosen loop left
ChosenOutcome == ChosenScan(variant, ChosenIds, response_template, FreshLocals)
RejectOutcome ==
    RejectScan(variant, RejectIds, response_template,
               [start_id |-> ChosenOutcome.start_id, end_id |-> ChosenOutcome.end_id])

LastMatch(ids, tpl) ==
    CHOOSE p \in Matches(ids, tpl) : \A q \in Matches(ids, tpl) : q <= p

\* C13: the span committed for a match depends on that match and the tokens only
\* (after the scan answer_end is the span end of the last match, never a value an
\* earlier match left), so on identical token sequences the chosen and the reject
\* scan give the same loss mask or fail in the same way.
C13_ScansAreOneFunction ==
    (pc = "item" /\ HasTemplate) =>
        /\ (ChosenOutcome.err = "ok" /\ Matches(ChosenIds, response_template) # {})
              => ChosenOutcome.end_id
                   = Bound(SpanEnd(ChosenIds, LastMatch(ChosenIds, response_template)
                                                + Len(response_template)))
        /\ ChosenIds = RejectIds
              => /\ ChosenOutcome.err = RejectOutcome.err
                 /\ ChosenOutcome.mask = RejectOutcome.mask

-----------------------------------------------------------------------------
(* The pipeline: the items __getitem__ returns for a stored dataset are handed
   to either batch assembler *)

Next == CollateFn \/ PackingCollateFn

Spec == InitCollate /\ [][Next]_vars

\* C14: a list of items the dataset's own __getitem__ returned is accepted by
\* collate_fn and by packing_collate_fn: each returns a batch without raising.
C14_AssemblersAcceptOwnItems ==
    (pc \in {"batch", "packed"}
       /\ Len(item_list) >= 1
       /\ \A k \in 1..Len(item_list) : item_list[k].err = "ok")
        => ret.err = "ok"

====
